---- MODULE Spec2Model ----
(***************************************************************************)
(* The CD Graphics video decoder of libavcodec/cdgraphics.c as a state     *)
(* machine: one decode call (cdg_decode_frame) per step, the handlers it   *)
(* dispatches to as operators over the flat pixel buffer frame.data[0]     *)
(* (row stride linesize[0]) and the palette frame.data[1].                 *)
(*                                                                         *)
(* The source fixes the canvas at 50 x 18 tiles of 6 x 12 pixels (300 x    *)
(* 216).  The model keeps the tile, border, mask and scroll geometry of    *)
(* the source and bounds the number of tile columns and rows of the        *)
(* canvas (CanvasTileCols, CanvasTileRows), so that TLC can enumerate the  *)
(* pixel buffers; CDG_FULL_WIDTH and CDG_FULL_HEIGHT are derived from      *)
(* them exactly as 300 = 50 * 6 and 216 = 18 * 12 are in the source.       *)
(***************************************************************************)
EXTENDS Integers, Sequences, FiniteSets, TLC

VARIABLES
    allocated,            \* cc->frame.data[0] != NULL
    pixels,               \* cc->frame.data[0][0 .. linesize*height-1]
    palette,              \* cc->frame.data[1] as uint32_t[16], each as 4 bytes
    palette_has_changed,  \* cc->frame.palette_has_changed
    hscroll,              \* cc->hscroll
    vscroll,              \* cc->vscroll
    acquired,             \* buffers the host has handed out so far
    released,             \* buffers handed back with release_buffer
    pkt,                  \* the input of the last decode call
    ret,                  \* the value the last decode call returned
    memsafe,              \* every buffer access of the last call was inside its buffer
    incanvas,             \* ... and inside the CDG_FULL_WIDTH x CDG_FULL_HEIGHT pixels
    closed,               \* cdg_decode_end has run
    npackets,             \* decode calls made so far
    xor_before,           \* the pixels the last call found, if it was a tile paint in xor mode
    shifts                \* sums of hinc and vinc of cdg_scroll so far, and of their 6 and 12 pixel parts

vars == <<allocated, pixels, palette, palette_has_changed, hscroll, vscroll,
          acquired, released, pkt, ret, memsafe, incanvas, closed, npackets,
          xor_before, shifts>>

---------------------------------------------------------------------------
(* Bounds of the model.                                                    *)

\* tile columns of the canvas (50 in the source)
CanvasTileCols == 3
\* tile rows of the canvas (18 in the source)
CanvasTileRows == 3
\* bytes by which the host's row stride exceeds the width
StridePad == 2
\* decode calls per run
MaxPackets == 2

---------------------------------------------------------------------------
(* Constants of the source.                                                *)

CDG_TILE_HEIGHT == 12
CDG_TILE_WIDTH == 6
CDG_BORDER_WIDTH == 6
CDG_BORDER_HEIGHT == 12
CDG_FULL_WIDTH == CanvasTileCols * CDG_TILE_WIDTH
CDG_FULL_HEIGHT == CanvasTileRows * CDG_TILE_HEIGHT
CDG_PALETTE_SIZE == 16
CDG_COMMAND == 9
CDG_MASK == 63
CDG_INST_MEMORY_PRESET == 1
CDG_INST_BORDER_PRESET == 2
CDG_INST_TILE_BLOCK == 6
CDG_INST_SCROLL_PRESET == 20
CDG_INST_SCROLL_COPY == 24
CDG_INST_LOAD_PAL_LO == 30
CDG_INST_LOAD_PAL_HIGH == 31
CDG_INST_TILE_BLOCK_XOR == 38
CDG_PACKET_SIZE == 24
UP == 2
DOWN == 1
LEFT == 2
RIGHT == 1

\* frame.linesize[0]: the host's row stride, at least the width
linesize == CDG_FULL_WIDTH + StridePad
\* the bytes of one pixel buffer
BufSize == linesize * CDG_FULL_HEIGHT
Offsets == 0 .. (BufSize - 1)

FFMIN(a, b) == IF a > b THEN b ELSE a
FFMAX(a, b) == IF a > b THEN a ELSE b

\* a ^ b on bytes
RECURSIVE Xor(_, _)
Xor(a, b) ==
    IF a = 0 THEN b
    ELSE IF b = 0 THEN a
    ELSE ((a + b) % 2) + 2 * Xor(a \div 2, b \div 2)

---------------------------------------------------------------------------
(* cdg_get_preset_values                                                   *)

PresetColor(cp) == cp.data[0] % 16
PresetRepeat(cp) == cp.data[1] % 16

\* mutant: the repeat count is not looked at
cdg_memory_preset_every_repeat(buf, cp) == [i \in Offsets |-> PresetColor(cp)]

(* cdg_memory_preset: memset of linesize * CDG_FULL_HEIGHT bytes           *)
cdg_memory_preset(buf, cp) ==
    IF PresetRepeat(cp) = 0
    THEN [i \in Offsets |-> PresetColor(cp)]
    ELSE buf

\* mutant: the right border is measured from the end of the row of the buffer
InBorderStride(i) ==
    LET x == i % linesize
        y == i \div linesize
    IN \/ i < CDG_BORDER_HEIGHT * linesize
       \/ /\ i >= (CDG_FULL_HEIGHT - CDG_BORDER_HEIGHT) * linesize
          /\ i < CDG_FULL_HEIGHT * linesize
       \/ /\ y >= CDG_BORDER_HEIGHT
          /\ y < CDG_FULL_HEIGHT - CDG_BORDER_HEIGHT
          /\ \/ x < CDG_BORDER_WIDTH
             \/ x >= linesize - CDG_BORDER_WIDTH

(* cdg_border_preset: two memsets of CDG_BORDER_HEIGHT * linesize bytes,   *)
(* then CDG_BORDER_WIDTH bytes at both ends of every row between them.     *)
InBorder(i) ==
    LET x == i % linesize
        y == i \div linesize
    IN \/ i < CDG_BORDER_HEIGHT * linesize
       \/ /\ i >= (CDG_FULL_HEIGHT - CDG_BORDER_HEIGHT) * linesize
          /\ i < CDG_FULL_HEIGHT * linesize
       \/ /\ y >= CDG_BORDER_HEIGHT
          /\ y < CDG_FULL_HEIGHT - CDG_BORDER_HEIGHT
          /\ \/ x < CDG_BORDER_WIDTH
             \/ /\ x >= CDG_FULL_WIDTH - CDG_BORDER_WIDTH
                /\ x < CDG_FULL_WIDTH

cdg_border_preset(buf, cp) ==
    IF PresetRepeat(cp) = 0
    THEN [i \in Offsets |-> IF InBorder(i) THEN PresetColor(cp) ELSE buf[i]]
    ELSE buf

(* cdg_load_palette: color is a uint16_t, r, g and b are uint8_t.  A       *)
(* palette entry r << 16 | g << 8 | b is kept as its four bytes, the most  *)
(* significant first.                                                      *)
PaletteColor(cp, i) ==
    (cp.data[2 * i] * 64 + (cp.data[2 * i + 1] % 64)) % 65536

\* mutant: the 4 bit channels are shifted to 8 bits, not multiplied by 17
PaletteEntryShifted(cp, i) ==
    LET color == PaletteColor(cp, i)
        r == (((color \div 256) % 16) * 16) % 256
        g == (((color \div 16) % 16) * 16) % 256
        b == ((color % 16) * 16) % 256
    IN <<0, r, g, b>>

\* mutant: the red channel is not masked with 0x0F
PaletteEntryWideRed(cp, i) ==
    LET color == PaletteColor(cp, i)
        r == ((color \div 256) * 17) % 256
        g == (((color \div 16) % 16) * 17) % 256
        b == ((color % 16) * 17) % 256
    IN <<0, r, g, b>>

PaletteEntry(cp, i) ==
    LET color == PaletteColor(cp, i)
        r == (((color \div 256) % 16) * 17) % 256
        g == (((color \div 16) % 16) * 17) % 256
        b == ((color % 16) * 17) % 256
    IN <<0, r, g, b>>

cdg_load_palette(pal, cp, low) ==
    LET array_offset == IF low THEN 0 ELSE 8
    IN [k \in 0 .. (CDG_PALETTE_SIZE - 1) |->
           IF k >= array_offset /\ k < array_offset + 8
           THEN PaletteEntry(cp, k - array_offset)
           ELSE pal[k]]

---------------------------------------------------------------------------
(* cdg_tile_block                                                          *)

TileC0(cp) == cp.data[0] % 16
TileC1(cp) == cp.data[1] % 16
TileRi(cp) == (cp.data[2] % 32) * CDG_TILE_HEIGHT
TileCi(cp) == (cp.data[3] % 64) * CDG_TILE_WIDTH

\* mutant: the early returns compare with >= (the last tile row and column
\* are dropped)
TileClippedInclusive(cp, hs, vs) ==
    \/ TileRi(cp) >= CDG_FULL_HEIGHT - CDG_TILE_HEIGHT - vs
    \/ TileRi(cp) + vs < 0
    \/ TileCi(cp) >= CDG_FULL_WIDTH - CDG_TILE_WIDTH - hs
    \/ TileCi(cp) + hs < 0

\* mutant: the early returns leave the scroll offsets out
TileClippedNoOffsets(cp, hs, vs) ==
    \/ TileRi(cp) > CDG_FULL_HEIGHT - CDG_TILE_HEIGHT
    \/ TileCi(cp) > CDG_FULL_WIDTH - CDG_TILE_WIDTH

\* mutant: the second early return (the columns) is missing
TileClippedRowsOnly(cp, hs, vs) ==
    \/ TileRi(cp) > CDG_FULL_HEIGHT - CDG_TILE_HEIGHT - vs
    \/ TileRi(cp) + vs < 0

\* the two early returns
TileClipped(cp, hs, vs) ==
    \/ TileRi(cp) > CDG_FULL_HEIGHT - CDG_TILE_HEIGHT - vs
    \/ TileRi(cp) + vs < 0
    \/ TileCi(cp) > CDG_FULL_WIDTH - CDG_TILE_WIDTH - hs
    \/ TileCi(cp) + hs < 0

\* mutant: the bitmap row is read from bit 0 (pix = (byte >> x) & 0x01)
TilePixMirrored(cp, x, y) ==
    LET byte == cp.data[4 + y] % 64
    IN (byte \div (2 ^ x)) % 2

\* pix = (byte >> (5 - x)) & 0x01, byte = data[4 + y] & 0x3F
TilePix(cp, x, y) ==
    LET byte == cp.data[4 + y] % 64
        shift == CASE 5 - x = 0 -> 1
                   [] 5 - x = 1 -> 2
                   [] 5 - x = 2 -> 4
                   [] 5 - x = 3 -> 8
                   [] 5 - x = 4 -> 16
                   [] OTHER -> 32
    IN (byte \div shift) % 2

\* ai = ci + x + cc->hscroll + lsize * (ri + y + cc->vscroll)
TileAi(cp, hs, vs, x, y) ==
    TileCi(cp) + x + hs + linesize * (TileRi(cp) + y + vs)

\* mutant: the xor mode adds the color to the byte of the buffer
TileColorAdd(cp, b, x, y, cur) ==
    LET color == IF TilePix(cp, x, y) = 0 THEN TileC0(cp) ELSE TileC1(cp)
    IN IF b THEN (color + cur) % 256 ELSE color

\* the color written at tile pixel (x, y) over the byte cur
TileColor(cp, b, x, y, cur) ==
    LET color == IF TilePix(cp, x, y) = 0 THEN TileC0(cp) ELSE TileC1(cp)
    IN IF b THEN Xor(color, cur) % 256 ELSE color

\* the two loops over y and x: ai = TileAi(cp, hs, vs, x, y) takes every
\* value once, so byte i is written iff i - TileAi(cp, hs, vs, 0, 0) is
\* x + lsize * y for an x below CDG_TILE_WIDTH and a y below CDG_TILE_HEIGHT
TileLoop(buf, cp, b, hs, vs) ==
    [i \in Offsets |->
        LET d == i - TileAi(cp, hs, vs, 0, 0)
            x == d % linesize
            y == d \div linesize
        IN IF d >= 0 /\ x < CDG_TILE_WIDTH /\ y < CDG_TILE_HEIGHT
           THEN TileColor(cp, b, x, y, buf[i])
           ELSE buf[i]]

cdg_tile_block(buf, cp, b, hs, vs) ==
    IF TileClipped(cp, hs, vs) THEN buf ELSE TileLoop(buf, cp, b, hs, vs)

\* the bytes buf[tl_x + j + lsize * (tl_y + y)] for j < w, y < h that a loop
\* nest or a run of memsets reads or writes
Rect(tl_x, tl_y, w, h) == [x |-> tl_x, y |-> tl_y, w |-> w, h |-> h]

\* the bytes cdg_tile_block reads and writes
TileAccess(cp, hs, vs) ==
    IF TileClipped(cp, hs, vs) THEN {}
    ELSE {Rect(TileCi(cp) + hs, TileRi(cp) + vs, CDG_TILE_WIDTH, CDG_TILE_HEIGHT)}

---------------------------------------------------------------------------
(* cdg_get_scroll_data                                                     *)

ScrollColor(cp) == cp.data[0] % 16
ScrollHCmd(cp) == ((cp.data[1] % (CDG_MASK + 1)) % 64) \div 16
ScrollVCmd(cp) == ((cp.data[2] % (CDG_MASK + 1)) % 64) \div 16
\* mutant: the horizontal offset is not clamped to CDG_BORDER_WIDTH - 1
ScrollHOffUnclamped(cp) == (cp.data[1] % (CDG_MASK + 1)) % 8

ScrollHOff(cp) == FFMIN((cp.data[1] % (CDG_MASK + 1)) % 8, CDG_BORDER_WIDTH - 1)
ScrollVOff(cp) == FFMIN((cp.data[2] % (CDG_MASK + 1)) % 16, CDG_BORDER_HEIGHT - 1)

(* cdg_scroll: the total shift of each axis                                *)
ScrollHDir(cp) ==
    IF ScrollHCmd(cp) = RIGHT THEN 6 ELSE IF ScrollHCmd(cp) = LEFT THEN -6 ELSE 0

ScrollVDir(cp) ==
    IF ScrollVCmd(cp) = DOWN THEN 12 ELSE IF ScrollVCmd(cp) = UP THEN -12 ELSE 0

\* mutant: the shift is taken from the new offset alone, not from its
\* difference to the stored one
ScrollHIncAbsolute(cp, hs) == ScrollHDir(cp) + ScrollHOff(cp)

ScrollHInc(cp, hs) == ScrollHDir(cp) + (ScrollHOff(cp) - hs)

ScrollVInc(cp, vs) == ScrollVDir(cp) + (ScrollVOff(cp) - vs)

\* the rectangle of w x h bytes with top left corner (tl_x, tl_y)
InRect(i, tl_x, tl_y, w, h) ==
    LET x == i % linesize
        y == i \div linesize
    IN x >= tl_x /\ x < tl_x + w /\ y >= tl_y /\ y < tl_y + h

RectOffsets(tl_x, tl_y, w, h) ==
    {tl_x + j + (tl_y + y) * linesize : j \in 0 .. (w - 1), y \in 0 .. (h - 1)}

(* cdg_fill_wrapper: cdg_copy_rect_buf when roll, else cdg_fill_rect_preset *)
cdg_fill_wrapper(out_tl_x, out_tl_y, out, in_tl_x, in_tl_y, in, color, w, h, roll) ==
    [i \in Offsets |->
        IF InRect(i, out_tl_x, out_tl_y, w, h)
        THEN IF roll
             THEN in[(i % linesize) - out_tl_x + in_tl_x
                     + ((i \div linesize) - out_tl_y + in_tl_y) * linesize]
             ELSE color
        ELSE out[i]]

\* the shifted copy: the two loops over y and x
ScrollShift(out, in, hinc, vinc) ==
    [i \in Offsets |->
        LET x == i % linesize
            y == i \div linesize
        IN IF /\ y >= FFMAX(0, vinc)
              /\ y < FFMIN(CDG_FULL_HEIGHT + vinc, CDG_FULL_HEIGHT)
              /\ x >= FFMAX(0, hinc)
              /\ x < FFMIN(linesize + hinc, linesize)
           THEN in[x - hinc + (y - vinc) * linesize]
           ELSE out[i]]

\* the vertical band, filled first
ScrollVFill(out, in, color, vinc, roll) ==
    IF vinc > 0
    THEN cdg_fill_wrapper(0, 0, out, 0, CDG_FULL_HEIGHT - vinc, in, color,
                          linesize, vinc, roll)
    ELSE IF vinc < 0
    THEN cdg_fill_wrapper(0, CDG_FULL_HEIGHT + vinc, out, 0, 0, in, color,
                          linesize, -1 * vinc, roll)
    ELSE out

\* mutant: the horizontal band of a right shift is taken from the end of the
\* row of the buffer, not of the canvas
ScrollHFillStride(out, in, color, hinc, roll) ==
    IF hinc > 0
    THEN cdg_fill_wrapper(0, 0, out, linesize - hinc, 0, in, color,
                          hinc, CDG_FULL_HEIGHT, roll)
    ELSE IF hinc < 0
    THEN cdg_fill_wrapper(CDG_FULL_WIDTH + hinc, 0, out, 0, 0, in, color,
                          -1 * hinc, CDG_FULL_HEIGHT, roll)
    ELSE out

\* the horizontal band, filled second
ScrollHFill(out, in, color, hinc, roll) ==
    IF hinc > 0
    THEN cdg_fill_wrapper(0, 0, out, CDG_FULL_WIDTH - hinc, 0, in, color,
                          hinc, CDG_FULL_HEIGHT, roll)
    ELSE IF hinc < 0
    THEN cdg_fill_wrapper(CDG_FULL_WIDTH + hinc, 0, out, 0, 0, in, color,
                          -1 * hinc, CDG_FULL_HEIGHT, roll)
    ELSE out

\* mutant: the horizontal band is filled first, the vertical band second
cdg_scroll_horizontal_first(cur, new, cp, roll_over, hs, vs) ==
    LET hinc == ScrollHInc(cp, hs)
        vinc == ScrollVInc(cp, vs)
    IN IF hinc = 0 /\ vinc = 0
       THEN new
       ELSE [pix |-> ScrollVFill(
                         ScrollHFill(ScrollShift(new.pix, cur.pix, hinc, vinc),
                                     cur.pix, ScrollColor(cp), hinc, roll_over),
                         cur.pix, ScrollColor(cp), vinc, roll_over),
             pal |-> cur.pal]

\* new_frame after cdg_scroll: cur is cc->frame, new the buffer get_buffer gave
cdg_scroll(cur, new, cp, roll_over, hs, vs) ==
    LET hinc == ScrollHInc(cp, hs)
        vinc == ScrollVInc(cp, vs)
    IN IF hinc = 0 /\ vinc = 0
       THEN new
       ELSE [pix |-> ScrollHFill(
                         ScrollVFill(ScrollShift(new.pix, cur.pix, hinc, vinc),
                                     cur.pix, ScrollColor(cp), vinc, roll_over),
                         cur.pix, ScrollColor(cp), hinc, roll_over),
             pal |-> cur.pal]

\* the bytes cdg_scroll reads in cc->frame and writes in new_frame
ScrollAccess(cp, roll, hs, vs) ==
    LET hinc == ScrollHInc(cp, hs)
        vinc == ScrollVInc(cp, vs)
        y0 == FFMAX(0, vinc)
        x0 == FFMAX(0, hinc)
        h == FFMIN(CDG_FULL_HEIGHT + vinc, CDG_FULL_HEIGHT) - y0
        w == FFMIN(linesize + hinc, linesize) - x0
        absv == IF vinc < 0 THEN -1 * vinc ELSE vinc
        absh == IF hinc < 0 THEN -1 * hinc ELSE hinc
    IN IF hinc = 0 /\ vinc = 0 THEN {}
       ELSE {Rect(x0, y0, w, h), Rect(x0 - hinc, y0 - vinc, w, h)}
            \cup (IF vinc > 0
                  THEN {Rect(0, 0, linesize, vinc)}
                       \cup (IF roll
                             THEN {Rect(0, CDG_FULL_HEIGHT - vinc, linesize, vinc)}
                             ELSE {})
                  ELSE IF vinc < 0
                  THEN {Rect(0, CDG_FULL_HEIGHT + vinc, linesize, absv)}
                       \cup (IF roll THEN {Rect(0, 0, linesize, absv)} ELSE {})
                  ELSE {})
            \cup (IF hinc > 0
                  THEN {Rect(0, 0, hinc, CDG_FULL_HEIGHT)}
                       \cup (IF roll
                             THEN {Rect(CDG_FULL_WIDTH - hinc, 0, hinc, CDG_FULL_HEIGHT)}
                             ELSE {})
                  ELSE IF hinc < 0
                  THEN {Rect(CDG_FULL_WIDTH + hinc, 0, absh, CDG_FULL_HEIGHT)}
                       \cup (IF roll
                             THEN {Rect(0, 0, absh, CDG_FULL_HEIGHT)}
                             ELSE {})
                  ELSE {})

\* the offsets of new_frame that cdg_scroll writes
ScrollWritten(cp, hs, vs) ==
    LET hinc == ScrollHInc(cp, hs)
        vinc == ScrollVInc(cp, vs)
        ys == FFMAX(0, vinc) .. (FFMIN(CDG_FULL_HEIGHT + vinc, CDG_FULL_HEIGHT) - 1)
        xs == FFMAX(0, hinc) .. (FFMIN(linesize + hinc, linesize) - 1)
    IN IF hinc = 0 /\ vinc = 0 THEN {}
       ELSE {x + linesize * y : x \in xs, y \in ys}
            \cup (IF vinc > 0 THEN RectOffsets(0, 0, linesize, vinc)
                  ELSE IF vinc < 0
                  THEN RectOffsets(0, CDG_FULL_HEIGHT + vinc, linesize, -1 * vinc)
                  ELSE {})
            \cup (IF hinc > 0 THEN RectOffsets(0, 0, hinc, CDG_FULL_HEIGHT)
                  ELSE IF hinc < 0
                  THEN RectOffsets(CDG_FULL_WIDTH + hinc, 0, -1 * hinc, CDG_FULL_HEIGHT)
                  ELSE {})

---------------------------------------------------------------------------
(* The host: get_buffer / reget_buffer hand out a buffer whose content the *)
(* decoder has not written.  The content is any byte pattern; the model    *)
(* draws it from the uniform patterns of FreshBytes.                       *)

FreshBytes == {0, 128}

FreshBuffer(g) ==
    [pix |-> [i \in Offsets |-> g],
     pal |-> [k \in 0 .. (CDG_PALETTE_SIZE - 1) |-> <<g, g, g, g>>]]

\* cc->frame before the first reget_buffer: data[0] == NULL
NoBuffer == [pix |-> <<>>, pal |-> <<>>]

---------------------------------------------------------------------------
(* The inputs: avpkt->size and the bytes the decoder reads, which are      *)
(* bytes 0, 1 and 4..19 of avpkt->data.  Nothing checks the size; the      *)
(* inputs of the model are at least 20 bytes long, so that every byte read *)
(* is a byte of the packet.                                                *)

Data(s) == [i \in 0 .. 15 |-> IF i < Len(s) THEN s[i + 1] ELSE 0]

Input(size, command, instruction, s) ==
    [size |-> size, command |-> command, instruction |-> instruction,
     data |-> Data(s)]

\* a 6 x 12 bitmap with set and clear bits in every column
TileBitmap == <<63, 33, 0, 21, 42, 63, 1, 32, 12, 51, 30, 64 + 7>>

TileInput(inst, c0, c1, rowfield, colfield) ==
    Input(CDG_PACKET_SIZE, CDG_COMMAND, inst, <<c0, c1, rowfield, colfield>> \o TileBitmap)

Inputs ==
    { Input(CDG_PACKET_SIZE, CDG_COMMAND + 64, CDG_INST_MEMORY_PRESET + 128, <<48 + 3, 16>>),
      Input(CDG_PACKET_SIZE, CDG_COMMAND, CDG_INST_MEMORY_PRESET, <<5, 2>>),
      Input(CDG_PACKET_SIZE, CDG_COMMAND, CDG_INST_BORDER_PRESET, <<7, 0>>),
      Input(CDG_PACKET_SIZE, CDG_COMMAND, CDG_INST_LOAD_PAL_LO,
            <<63, 63, 0, 15, 3, 48, 4, 0, 128 + 1, 64 + 2, 21, 42, 255, 255, 0, 0>>),
      Input(CDG_PACKET_SIZE, CDG_COMMAND, CDG_INST_LOAD_PAL_HIGH,
            <<0, 0, 60, 0, 3, 48, 0, 15, 1, 2, 4, 8, 16, 32, 33, 18>>),
      TileInput(CDG_INST_TILE_BLOCK, 2, 9, 0, 0),
      TileInput(CDG_INST_TILE_BLOCK, 16 + 4, 1, CanvasTileRows - 1, CanvasTileCols - 1),
      TileInput(CDG_INST_TILE_BLOCK_XOR, 64 + 5, 128 + 10, 64 + 32 + 1, 128 + 1),
      TileInput(CDG_INST_TILE_BLOCK, 6, 1, CanvasTileRows, 0),
      TileInput(CDG_INST_TILE_BLOCK_XOR, 6, 1, 0, CanvasTileCols),
      Input(CDG_PACKET_SIZE, CDG_COMMAND, CDG_INST_SCROLL_PRESET, <<4, 0, 0>>),
      Input(CDG_PACKET_SIZE, CDG_COMMAND, CDG_INST_SCROLL_COPY, <<0, 16, 0>>),
      Input(CDG_PACKET_SIZE, CDG_COMMAND, CDG_INST_SCROLL_PRESET, <<5, 16, 0>>),
      Input(CDG_PACKET_SIZE, CDG_COMMAND, CDG_INST_SCROLL_PRESET, <<2, 1, 2>>),
      Input(CDG_PACKET_SIZE, CDG_COMMAND, CDG_INST_SCROLL_PRESET, <<8, 32 + 7, 32 + 15>>),
      Input(CDG_PACKET_SIZE, CDG_COMMAND, CDG_INST_SCROLL_COPY, <<1, 64 + 2, 16 + 3>>),
      Input(CDG_PACKET_SIZE, CDG_COMMAND, 7, <<1, 0, 0, 0>>),
      Input(CDG_PACKET_SIZE, CDG_COMMAND + 16, CDG_INST_MEMORY_PRESET, <<1, 0>>),
      Input(CDG_PACKET_SIZE + 1, CDG_COMMAND, CDG_INST_MEMORY_PRESET, <<9, 0>>),
      Input(CDG_PACKET_SIZE, CDG_COMMAND, CDG_INST_BORDER_PRESET, <<6, 1>>) }

\* no byte of a packet read: before the first call, and after a call that
\* failed in reget_buffer
Unread == Input(0, 0, 0, <<>>)

\* mutant: the command byte is masked with 0x0F
IsCommandLowNibble(cp) == cp.command % 16 = CDG_COMMAND

IsCommand(cp) == cp.command % (CDG_MASK + 1) = CDG_COMMAND
Instruction(cp) == cp.instruction % (CDG_MASK + 1)
IsScroll(cp) ==
    IsCommand(cp) /\ Instruction(cp) \in {CDG_INST_SCROLL_PRESET, CDG_INST_SCROLL_COPY}

---------------------------------------------------------------------------
(* cdg_decode_init                                                         *)

\* no scroll so far
NoShifts == [h |-> 0, v |-> 0, dh |-> 0, dv |-> 0]

Init ==
    /\ allocated = FALSE
    /\ pixels = NoBuffer.pix
    /\ palette = NoBuffer.pal
    /\ palette_has_changed = 0
    /\ hscroll = 0
    /\ vscroll = 0
    /\ acquired = 0
    /\ released = 0
    /\ pkt = Unread
    /\ ret = 0
    /\ memsafe = TRUE
    /\ incanvas = TRUE
    /\ closed = FALSE
    /\ npackets = 0
    /\ xor_before = NoBuffer.pix
    /\ shifts = NoShifts

\* cc->frame after a successful reget_buffer: the buffer kept with its
\* content, or on the first call a buffer fresh from the host
Reget(fresh) ==
    IF allocated THEN [pix |-> pixels, pal |-> palette] ELSE fresh

\* the fresh contents the host may hand to reget_buffer
RegetChoices == IF allocated THEN {NoBuffer} ELSE {FreshBuffer(g) : g \in FreshBytes}

\* the switch of cdg_decode_frame, the scroll cases apart: the frame after it
Dispatch(cur, cp, hs, vs) ==
    IF ~IsCommand(cp) THEN cur
    ELSE CASE Instruction(cp) = CDG_INST_MEMORY_PRESET ->
                  [cur EXCEPT !.pix = cdg_memory_preset(cur.pix, cp)]
           [] Instruction(cp) = CDG_INST_LOAD_PAL_LO ->
                  [cur EXCEPT !.pal = cdg_load_palette(cur.pal, cp, TRUE)]
           [] Instruction(cp) = CDG_INST_LOAD_PAL_HIGH ->
                  [cur EXCEPT !.pal = cdg_load_palette(cur.pal, cp, FALSE)]
           [] Instruction(cp) = CDG_INST_BORDER_PRESET ->
                  [cur EXCEPT !.pix = cdg_border_preset(cur.pix, cp)]
           [] Instruction(cp) = CDG_INST_TILE_BLOCK ->
                  [cur EXCEPT !.pix = cdg_tile_block(cur.pix, cp, FALSE, hs, vs)]
           [] Instruction(cp) = CDG_INST_TILE_BLOCK_XOR ->
                  [cur EXCEPT !.pix = cdg_tile_block(cur.pix, cp, TRUE, hs, vs)]
           [] OTHER -> cur

\* the bytes of frame.data[0] the handler of cp reads or writes
DispatchAccess(cp, hs, vs) ==
    IF ~IsCommand(cp) THEN {}
    ELSE CASE Instruction(cp) = CDG_INST_MEMORY_PRESET ->
                  IF PresetRepeat(cp) = 0
                  THEN {Rect(0, 0, linesize, CDG_FULL_HEIGHT)}
                  ELSE {}
           [] Instruction(cp) = CDG_INST_BORDER_PRESET ->
                  IF PresetRepeat(cp) = 0
                  THEN {Rect(0, 0, linesize, CDG_BORDER_HEIGHT),
                        Rect(0, CDG_FULL_HEIGHT - CDG_BORDER_HEIGHT,
                             linesize, CDG_BORDER_HEIGHT),
                        Rect(0, CDG_BORDER_HEIGHT, CDG_BORDER_WIDTH,
                             CDG_FULL_HEIGHT - 2 * CDG_BORDER_HEIGHT),
                        Rect(CDG_FULL_WIDTH - CDG_BORDER_WIDTH, CDG_BORDER_HEIGHT,
                             CDG_BORDER_WIDTH, CDG_FULL_HEIGHT - 2 * CDG_BORDER_HEIGHT)}
                  ELSE {}
           [] Instruction(cp) \in {CDG_INST_TILE_BLOCK, CDG_INST_TILE_BLOCK_XOR} ->
                  TileAccess(cp, hs, vs)
           [] Instruction(cp) = CDG_INST_SCROLL_PRESET ->
                  ScrollAccess(cp, FALSE, hs, vs)
           [] Instruction(cp) = CDG_INST_SCROLL_COPY ->
                  ScrollAccess(cp, TRUE, hs, vs)
           [] OTHER -> {}

\* every byte of the rectangles of R lies in the buffer: the first and the
\* last byte of each do, and the offsets between them lie between these
InBuffer(R) ==
    \A r \in R :
        (r.w > 0 /\ r.h > 0) =>
            /\ r.x + linesize * r.y >= 0
            /\ r.x + r.w - 1 + linesize * (r.y + r.h - 1) < BufSize

\* ... and in a column of the canvas: byte j of every row of a rectangle is
\* in column (x + j) mod linesize of the buffer
InCanvas(R) ==
    /\ InBuffer(R)
    /\ \A r \in R :
           (r.w > 0 /\ r.h > 0) =>
               \A j \in 0 .. (r.w - 1) : (r.x + j) % linesize < CDG_FULL_WIDTH

\* palette_has_changed after the switch
PaletteFlag(cp, flag) ==
    IF IsCommand(cp) /\ Instruction(cp) \in {CDG_INST_LOAD_PAL_LO, CDG_INST_LOAD_PAL_HIGH}
    THEN 1 ELSE flag

\* the value cdg_decode_frame returns when no buffer request failed
ReturnValue(cp) == IF IsCommand(cp) THEN cp.size ELSE 0

---------------------------------------------------------------------------
(* cdg_decode_frame, one action per outcome of the host's callbacks        *)

\* reget_buffer fails: return -1 before a byte of the packet is read
DecodeRegetFails ==
    /\ ~closed
    /\ npackets < MaxPackets
    /\ pkt' = Unread
    /\ ret' = -1
    /\ memsafe' = TRUE
    /\ incanvas' = TRUE
    /\ npackets' = npackets + 1
    /\ xor_before' = NoBuffer.pix
    /\ UNCHANGED <<allocated, pixels, palette, palette_has_changed, hscroll,
                   vscroll, acquired, released, closed, shifts>>

\* every packet that is no scroll instruction
DecodeFrame(in, fresh) ==
    /\ ~closed
    /\ npackets < MaxPackets
    /\ ~IsScroll(in)
    /\ LET cur == Reget(fresh)
           new == Dispatch(cur, in, hscroll, vscroll)
           offs == DispatchAccess(in, hscroll, vscroll)
       IN /\ pixels' = new.pix
          /\ palette' = new.pal
          /\ memsafe' = InBuffer(offs)
          /\ incanvas' = InCanvas(offs)
          /\ xor_before' = IF IsCommand(in) /\ Instruction(in) = CDG_INST_TILE_BLOCK_XOR
                            THEN cur.pix ELSE NoBuffer.pix
    /\ allocated' = TRUE
    /\ acquired' = IF allocated THEN acquired ELSE acquired + 1
    /\ palette_has_changed' = PaletteFlag(in, palette_has_changed)
    /\ pkt' = in
    /\ ret' = ReturnValue(in)
    /\ npackets' = npackets + 1
    /\ UNCHANGED <<hscroll, vscroll, released, closed, shifts>>

\* mutant: cc->frame is released before get_buffer is called
DecodeGetBufferFailsReleased(in, fresh) ==
    /\ ~closed
    /\ npackets < MaxPackets
    /\ IsScroll(in)
    /\ LET cur == Reget(fresh)
       IN /\ pixels' = cur.pix
          /\ palette' = cur.pal
    /\ allocated' = TRUE
    /\ acquired' = IF allocated THEN acquired ELSE acquired + 1
    /\ released' = released + 1
    /\ pkt' = in
    /\ ret' = -1
    /\ memsafe' = TRUE
    /\ incanvas' = TRUE
    /\ npackets' = npackets + 1
    /\ xor_before' = NoBuffer.pix
    /\ UNCHANGED <<palette_has_changed, hscroll, vscroll, closed, shifts>>

\* mutant: the offsets of the packet are saved before get_buffer is called
DecodeGetBufferFailsOffsetsSaved(in, fresh) ==
    /\ ~closed
    /\ npackets < MaxPackets
    /\ IsScroll(in)
    /\ LET cur == Reget(fresh)
       IN /\ pixels' = cur.pix
          /\ palette' = cur.pal
    /\ allocated' = TRUE
    /\ acquired' = IF allocated THEN acquired ELSE acquired + 1
    /\ hscroll' = ScrollHOff(in)
    /\ vscroll' = ScrollVOff(in)
    /\ pkt' = in
    /\ ret' = -1
    /\ memsafe' = TRUE
    /\ incanvas' = TRUE
    /\ npackets' = npackets + 1
    /\ xor_before' = NoBuffer.pix
    /\ UNCHANGED <<palette_has_changed, released, closed, shifts>>

\* a scroll instruction whose get_buffer fails: return -1
DecodeGetBufferFails(in, fresh) ==
    /\ ~closed
    /\ npackets < MaxPackets
    /\ IsScroll(in)
    /\ LET cur == Reget(fresh)
       IN /\ pixels' = cur.pix
          /\ palette' = cur.pal
    /\ allocated' = TRUE
    /\ acquired' = IF allocated THEN acquired ELSE acquired + 1
    /\ pkt' = in
    /\ ret' = -1
    /\ memsafe' = TRUE
    /\ incanvas' = TRUE
    /\ npackets' = npackets + 1
    /\ xor_before' = NoBuffer.pix
    /\ UNCHANGED <<palette_has_changed, hscroll, vscroll, released, closed, shifts>>

\* a scroll instruction: cdg_scroll into new_frame, release cc->frame,
\* cc->frame = new_frame
DecodeScroll(in, fresh, g) ==
    /\ ~closed
    /\ npackets < MaxPackets
    /\ IsScroll(in)
    /\ LET cur == Reget(fresh)
           new == cdg_scroll(cur, FreshBuffer(g), in,
                             Instruction(in) # CDG_INST_SCROLL_PRESET, hscroll, vscroll)
           offs == DispatchAccess(in, hscroll, vscroll)
       IN /\ pixels' = new.pix
          /\ palette' = new.pal
          /\ memsafe' = InBuffer(offs)
          /\ incanvas' = InCanvas(offs)
    /\ hscroll' = ScrollHOff(in)
    /\ vscroll' = ScrollVOff(in)
    /\ allocated' = TRUE
    /\ acquired' = IF allocated THEN acquired + 1 ELSE acquired + 2
    /\ released' = released + 1
    /\ palette_has_changed' = 0
    /\ pkt' = in
    /\ ret' = ReturnValue(in)
    /\ npackets' = npackets + 1
    /\ xor_before' = NoBuffer.pix
    /\ shifts' = [h |-> shifts.h + ScrollHInc(in, hscroll),
                  v |-> shifts.v + ScrollVInc(in, vscroll),
                  dh |-> shifts.dh + ScrollHDir(in),
                  dv |-> shifts.dv + ScrollVDir(in)]
    /\ UNCHANGED closed

(* cdg_decode_end                                                          *)
DecodeEnd ==
    /\ ~closed
    /\ closed' = TRUE
    /\ released' = IF allocated THEN released + 1 ELSE released
    /\ UNCHANGED <<allocated, pixels, palette, palette_has_changed, hscroll,
                   vscroll, acquired, pkt, ret, memsafe, incanvas, npackets,
                   xor_before, shifts>>

Next ==
    \/ DecodeRegetFails
    \/ \E in \in Inputs, fresh \in RegetChoices : DecodeFrame(in, fresh)
    \/ \E in \in Inputs, fresh \in RegetChoices : DecodeGetBufferFails(in, fresh)
    \/ \E in \in Inputs, fresh \in RegetChoices, g \in FreshBytes : DecodeScroll(in, fresh, g)
    \/ DecodeEnd

Spec == Init /\ [][Next]_vars

---------------------------------------------------------------------------
(* The steps the claims speak of.                                          *)

\* this step is a decode call that read its packet
Decoded == npackets' = npackets + 1 /\ pkt' # Unread
\* ... and returned no error
DecodedOk == Decoded /\ ret' >= 0
\* ... on a canvas that existed before the call
DecodedOnCanvas == DecodedOk /\ allocated

IsTile(cp) ==
    IsCommand(cp) /\ Instruction(cp) \in {CDG_INST_TILE_BLOCK, CDG_INST_TILE_BLOCK_XOR}
IsPlainTile(cp) == IsCommand(cp) /\ Instruction(cp) = CDG_INST_TILE_BLOCK

\* the pixels of the canvas: the bytes of the buffer below the width
CanvasOffsets == {i \in Offsets : i % linesize < CDG_FULL_WIDTH}

\* the tile geometry as the claims state it
ClaimRow(cp) == (cp.data[2] % 32) * 12
ClaimCol(cp) == (cp.data[3] % 64) * 6
ClaimBit(cp, x, y) == (cp.data[4 + y] \div (2 ^ (5 - x))) % 2
ClaimPlain(cp, x, y) == IF ClaimBit(cp, x, y) = 1 THEN cp.data[1] % 16 ELSE cp.data[0] % 16
\* the byte of the pixel in column X of row Y
At(X, Y) == X + linesize * Y
ClaimTileRect(cp, hs, vs) ==
    {At(ClaimCol(cp) + x + hs, ClaimRow(cp) + y + vs) : x \in 0 .. 5, y \in 0 .. 11}

---------------------------------------------------------------------------
(* C1: when a scroll-preset or scroll-copy packet is decoded and the host  *)
(* does not supply the new buffer, the call returns an error, hscroll and  *)
(* vscroll keep their values, no buffer is released, and every pixel and   *)
(* every palette entry of the canvas held before the call is unchanged.    *)
(* (On the very first call there is no canvas before the call: its buffer  *)
(* is the one reget_buffer has just handed out.)                           *)
C1_ScrollAllocFailureKeepsState ==
    [][(Decoded /\ IsScroll(pkt') /\ ret' < 0)
        => /\ hscroll' = hscroll
           /\ vscroll' = vscroll
           /\ released' = released
           /\ palette_has_changed' = palette_has_changed
           /\ allocated => (pixels' = pixels /\ palette' = palette)]_vars

\* a failed scroll on a canvas that a memory-preset had filled with color 3
C1_Witness ==
    /\ IsScroll(pkt) /\ ret = -1 /\ npackets = 2 /\ released = 0
    /\ allocated /\ \A i \in CanvasOffsets : pixels[i] = 3

(* C2 (as claimed): a scroll whose net shift is zero on both axes leaves   *)
(* every pixel and every palette entry as before the packet and sets the   *)
(* offsets to the packet's fine offsets.                                   *)
C2_ZeroScrollKeepsCanvas ==
    [][(DecodedOnCanvas /\ IsScroll(pkt')
        /\ ScrollHInc(pkt', hscroll) = 0 /\ ScrollVInc(pkt', vscroll) = 0)
        => /\ \A i \in CanvasOffsets : pixels'[i] = pixels[i]
           /\ palette' = palette
           /\ hscroll' = FFMIN(pkt'.data[1] % 8, 5)
           /\ vscroll' = FFMIN(pkt'.data[2] % 16, 11)]_vars

(* C3 (as claimed): a decode call whose input is not exactly 24 bytes      *)
(* long fails with an error and leaves pixels, palette and offsets as they *)
(* were.                                                                   *)
C3_WrongSizeIsRejected ==
    [][(Decoded /\ pkt'.size # 24)
        => /\ ret' < 0
           /\ hscroll' = hscroll
           /\ vscroll' = vscroll
           /\ allocated => (pixels' = pixels /\ palette' = palette)]_vars

(* C4 (as claimed): in every reachable state every pixel of the canvas     *)
(* holds a palette index in 0..15.                                         *)
C4_PixelsArePaletteIndices ==
    allocated => \A i \in CanvasOffsets : pixels[i] \in 0 .. 15

(* C5 (as claimed): every byte a handler reads or writes is a pixel of the *)
(* canvas: inside the buffer, in a column below CDG_FULL_WIDTH.            *)
C5_AccessesInsideCanvas == incanvas

(* C5 (amended): every byte a handler reads or writes lies inside the      *)
(* buffer of linesize * CDG_FULL_HEIGHT bytes, and every byte tile-paint   *)
(* touches is a pixel of the canvas; the preset fills and the scroll copy  *)
(* also run over the stride padding of each row.                           *)
C5_AccessesInsideBuffer ==
    memsafe /\ (IsTile(pkt) => incanvas)

\* a tile painted at the last tile row and column under no offset
C5_Witness ==
    /\ IsTile(pkt) /\ ret = 24 /\ hscroll = 0 /\ vscroll = 0
    /\ TileRi(pkt) = CDG_FULL_HEIGHT - 12 /\ TileCi(pkt) = CDG_FULL_WIDTH - 6
    /\ pixels[BufSize - 1 - StridePad] = 1

(* C6: in every reachable state 0 <= hscroll <= 5 and 0 <= vscroll <= 11.  *)
C6_ScrollOffsetsInRange ==
    hscroll \in 0 .. 5 /\ vscroll \in 0 .. 11

\* the offsets after the fine offsets 7 and 15 were clamped
C6_Witness == hscroll = 5 /\ vscroll = 11 /\ pkt.data[1] % 8 = 7 /\ pkt.data[2] % 16 = 15

(* C7: hscroll and vscroll change only in a decode call that processes a   *)
(* scroll-preset or scroll-copy packet without error, which sets them to   *)
(* the packet's clamped fine offsets; every other step leaves both as they *)
(* were.                                                                   *)
C7_OffsetsChangeOnlyOnScroll ==
    [][IF DecodedOk /\ IsScroll(pkt')
       THEN /\ hscroll' = FFMIN(pkt'.data[1] % 8, 5)
            /\ vscroll' = FFMIN(pkt'.data[2] % 16, 11)
       ELSE hscroll' = hscroll /\ vscroll' = vscroll]_vars

\* a tile-paint decoded under the offsets (2, 3) of an earlier scroll
C7_Witness == IsTile(pkt) /\ ret = 24 /\ hscroll = 2 /\ vscroll = 3 /\ npackets = 2

(* C8 (as claimed): a tile-paint with row = CDG_FULL_HEIGHT - 12, the last *)
(* tile row (204, row field 17, in the source), decoded under the offset   *)
(* (0, 0) leaves the canvas unmodified.                                    *)
C8_LastRowTileLeavesCanvas ==
    [][(DecodedOnCanvas /\ IsTile(pkt') /\ hscroll = 0 /\ vscroll = 0
        /\ ClaimRow(pkt') = CDG_FULL_HEIGHT - 12)
        => pixels' = pixels]_vars

(* C8 (amended): under the offset (0, 0) a tile-paint leaves the canvas    *)
(* unmodified when its row is beyond the last tile row (row > 204, row     *)
(* field >= 18, in the source); a tile in the last tile row itself, in a   *)
(* column of the canvas, is painted in full.                               *)
C8_TileBeyondLastRowLeavesCanvas ==
    [][(DecodedOnCanvas /\ IsTile(pkt') /\ hscroll = 0 /\ vscroll = 0)
        => /\ ClaimRow(pkt') > CDG_FULL_HEIGHT - 12 => pixels' = pixels
           /\ (/\ ClaimRow(pkt') = CDG_FULL_HEIGHT - 12
               /\ ClaimCol(pkt') <= CDG_FULL_WIDTH - 6
               /\ IsPlainTile(pkt'))
              => \A x \in 0 .. 5, y \in 0 .. 11 :
                     pixels'[At(ClaimCol(pkt') + x, ClaimRow(pkt') + y)]
                         = ClaimPlain(pkt', x, y)]_vars

\* a tile with row field one past the last tile row, decoded under (0, 0)
\* on a canvas that a memory-preset had filled with color 3
C8_Witness ==
    /\ IsTile(pkt) /\ ret = 24 /\ hscroll = 0 /\ vscroll = 0 /\ npackets = 2
    /\ ClaimRow(pkt) = CDG_FULL_HEIGHT
    /\ \A i \in CanvasOffsets : pixels[i] = 3

(* C9: tile-paint is all or nothing.  With row = (byte2 & 0x1F) * 12 and   *)
(* col = (byte3 & 0x3F) * 6, the canvas is unchanged if                    *)
(* row > CDG_FULL_HEIGHT - 12 - vscroll or col > CDG_FULL_WIDTH - 6 -      *)
(* hscroll; otherwise each of the 72 pixels of the tile is written (c0 or  *)
(* c1 by its bitmap bit, XORed with the old pixel in XOR mode) and no      *)
(* other byte changes.                                                     *)
C9_TilePaintAllOrNothing ==
    [][(DecodedOnCanvas /\ IsTile(pkt'))
        => IF \/ ClaimRow(pkt') > CDG_FULL_HEIGHT - 12 - vscroll
              \/ ClaimCol(pkt') > CDG_FULL_WIDTH - 6 - hscroll
           THEN pixels' = pixels
           ELSE /\ \A x \in 0 .. 5, y \in 0 .. 11 :
                      LET i == At(ClaimCol(pkt') + x + hscroll, ClaimRow(pkt') + y + vscroll)
                      IN pixels'[i] = IF IsPlainTile(pkt')
                                      THEN ClaimPlain(pkt', x, y)
                                      ELSE Xor(ClaimPlain(pkt', x, y), pixels[i])
                /\ \A i \in Offsets \ ClaimTileRect(pkt', hscroll, vscroll) :
                      pixels'[i] = pixels[i]]_vars

\* a tile of the last tile row and column, skipped only because of the
\* offsets (2, 3) of an earlier scroll
C9_Witness ==
    /\ IsTile(pkt) /\ ret = 24 /\ hscroll = 2 /\ vscroll = 3 /\ npackets = 2
    /\ ClaimRow(pkt) = CDG_FULL_HEIGHT - 12 /\ ClaimCol(pkt) = CDG_FULL_WIDTH - 6

(* C10: an unclipped plain tile-paint sets the pixel at (col + x +         *)
(* hscroll, row + y + vscroll) to c1 if bit 5 - x of data byte 4 + y is 1  *)
(* and to c0 otherwise, for every x in 0..5 and y in 0..11; every other    *)
(* pixel, the palette and the offsets are unchanged.                       *)
C10_PlainTilePixels ==
    [][(/\ DecodedOnCanvas /\ IsPlainTile(pkt')
        /\ ClaimRow(pkt') <= CDG_FULL_HEIGHT - 12 - vscroll
        /\ ClaimCol(pkt') <= CDG_FULL_WIDTH - 6 - hscroll)
        => /\ \A x \in 0 .. 5, y \in 0 .. 11 :
                 pixels'[At(ClaimCol(pkt') + x + hscroll, ClaimRow(pkt') + y + vscroll)]
                     = ClaimPlain(pkt', x, y)
           /\ \A i \in Offsets \ ClaimTileRect(pkt', hscroll, vscroll) :
                 pixels'[i] = pixels[i]
           /\ palette' = palette
           /\ hscroll' = hscroll
           /\ vscroll' = vscroll]_vars

\* the tile at row 0, column 0 painted under the offsets (2, 3): its top
\* left pixel lies at (2, 3) and holds c1 = 9 (bit 5 of bitmap byte 63)
C10_Witness ==
    /\ IsPlainTile(pkt) /\ ret = 24 /\ hscroll = 2 /\ vscroll = 3
    /\ ClaimRow(pkt) = 0 /\ ClaimCol(pkt) = 0
    /\ pixels[At(2, 3)] = 9 /\ pixels[At(1, 3)] # 9

---------------------------------------------------------------------------
IsXorTile(cp) == IsCommand(cp) /\ Instruction(cp) = CDG_INST_TILE_BLOCK_XOR

\* C11: tile paint in xor mode is an involution.  When a call decodes the
\* xor tile packet the call before it decoded, with no scroll between them,
\* the buffer is again what the first of the two calls found; and from every
\* canvas and every pair of scroll offsets, the handler applied once more to
\* the result of an xor tile paint gives back the canvas the paint started
\* from.
C11_XorTileTwiceRestores ==
    [][(DecodedOk /\ IsXorTile(pkt')) =>
          /\ (pkt = pkt' /\ ret >= 0) => pixels' = xor_before
          /\ allocated =>
                cdg_tile_block(pixels', pkt', TRUE, hscroll', vscroll') = pixels]_vars

\* the second of two equal xor tile paints has run: the buffer it found was
\* painted, and the buffer is uniform again as the host handed it out
C11_Witness ==
    /\ npackets = 2
    /\ IsXorTile(pkt)
    /\ ~TileClipped(pkt, hscroll, vscroll)
    /\ xor_before # pixels
    /\ \A i \in Offsets : pixels[i] = pixels[0]

---------------------------------------------------------------------------
\* the scroll packet asks for a shift right by one tile width and for
\* nothing else: no vertical command, the fine offsets as they are stored
PureRight(cp, hs, vs) ==
    /\ IsScroll(cp)
    /\ (cp.data[1] % 64) \div 16 = 1
    /\ (cp.data[2] % 64) \div 16 \notin {1, 2}
    /\ FFMIN(cp.data[1] % 8, 5) = hs
    /\ FFMIN(cp.data[2] % 16, 11) = vs

\* C12: a scroll right by 6 with no other shift moves every pixel six
\* columns to the right; columns 0..5 of the new canvas hold columns
\* WIDTH-6 .. WIDTH-1 of the old canvas in copy mode and the color of the
\* packet in preset mode.
C12_PureRightShift ==
    [][(DecodedOnCanvas /\ PureRight(pkt', hscroll, vscroll)) =>
          /\ \A x \in 6 .. (CDG_FULL_WIDTH - 1), y \in 0 .. (CDG_FULL_HEIGHT - 1) :
                pixels'[At(x, y)] = pixels[At(x - 6, y)]
          /\ \A x \in 0 .. 5, y \in 0 .. (CDG_FULL_HEIGHT - 1) :
                pixels'[At(x, y)] =
                    IF Instruction(pkt') = CDG_INST_SCROLL_COPY
                    THEN pixels[At(CDG_FULL_WIDTH - 6 + x, y)]
                    ELSE pkt'.data[0] % 16]_vars

\* a tile painted at the top left corner has been scrolled one tile to the
\* right in copy mode: its first row is in columns 6..11, and column 0 holds
\* what the last tile column held
C12_Witness ==
    /\ npackets = 2
    /\ ret >= 0
    /\ PureRight(pkt, hscroll, vscroll)
    /\ Instruction(pkt) = CDG_INST_SCROLL_COPY
    /\ pixels[At(6, 0)] = 9
    /\ pixels[At(11, 0)] = 9
    /\ pixels[At(0, 0)] # 9

---------------------------------------------------------------------------
IsMemoryPreset(cp) == IsCommand(cp) /\ Instruction(cp) = CDG_INST_MEMORY_PRESET

\* C13: a memory preset packet whose repeat field data[1] & 0x0F is 0 sets
\* every pixel of the canvas to data[0] & 0x0F; with any other repeat field
\* it leaves the canvas as it is; either way the palette and the scroll
\* offsets stay.
C13_MemoryPreset ==
    [][(DecodedOk /\ IsMemoryPreset(pkt')) =>
          /\ pkt'.data[1] % 16 = 0 =>
                \A i \in CanvasOffsets : pixels'[i] = pkt'.data[0] % 16
          /\ (pkt'.data[1] % 16 # 0 /\ allocated) =>
                \A i \in CanvasOffsets : pixels'[i] = pixels[i]
          /\ allocated => palette' = palette
          /\ hscroll' = hscroll
          /\ vscroll' = vscroll]_vars

\* the canvas has been cleared after a scroll had moved the offsets
C13_Witness ==
    /\ npackets = 2
    /\ IsMemoryPreset(pkt)
    /\ pkt.data[1] % 16 = 0
    /\ hscroll = 2
    /\ vscroll = 3
    /\ \A i \in CanvasOffsets : pixels[i] = 3

---------------------------------------------------------------------------
IsBorderPreset(cp) == IsCommand(cp) /\ Instruction(cp) = CDG_INST_BORDER_PRESET

\* the border as the claim states it: the top and bottom 12 rows, and the
\* left and right 6 columns of the rows between them
ClaimBorder(x, y) ==
    \/ y < 12
    \/ y >= CDG_FULL_HEIGHT - 12
    \/ x < 6
    \/ x >= CDG_FULL_WIDTH - 6

\* C14: a border preset packet whose repeat field is 0 sets exactly the
\* pixels of the border to data[0] & 0x0F and leaves every pixel of the
\* interior as it is; with any other repeat field no pixel changes.
C14_BorderPreset ==
    [][(DecodedOk /\ IsBorderPreset(pkt')) =>
          \A x \in 0 .. (CDG_FULL_WIDTH - 1), y \in 0 .. (CDG_FULL_HEIGHT - 1) :
              IF pkt'.data[1] % 16 = 0 /\ ClaimBorder(x, y)
              THEN pixels'[At(x, y)] = pkt'.data[0] % 16
              ELSE allocated => pixels'[At(x, y)] = pixels[At(x, y)]]_vars

\* a border has been painted around a tile painted in the interior
C14_Witness ==
    /\ npackets = 2
    /\ IsBorderPreset(pkt)
    /\ pkt.data[1] % 16 = 0
    /\ pixels[At(0, 0)] = 7
    /\ pixels[At(CDG_FULL_WIDTH - 1, CDG_FULL_HEIGHT - 1)] = 7
    /\ pixels[At(CDG_FULL_WIDTH - 6, 12)] = 7
    /\ pixels[At(6, 12)] \notin FreshBytes \cup {7}

---------------------------------------------------------------------------
IsPaletteLoad(cp) ==
    IsCommand(cp) /\ Instruction(cp) \in {CDG_INST_LOAD_PAL_LO, CDG_INST_LOAD_PAL_HIGH}

\* the first palette entry a palette load packet writes
ClaimPaletteBase(cp) == IF cp.instruction % 64 = 30 THEN 0 ELSE 8

\* the value (data[2i] << 6) | (data[2i+1] & 0x3F) of the claim; the two
\* operands share no bit
ClaimPaletteValue(cp, i) == (cp.data[2 * i] * 64) + (cp.data[2 * i + 1] % 64)

\* C15: a palette load low packet writes exactly the entries 0..7 and a
\* palette load high packet exactly the entries 8..15; entry i of the packet
\* has red from bits 8-11, green from bits 4-7 and blue from bits 0-3 of
\* (data[2i] << 6) | (data[2i+1] & 0x3F), each times 17; the other eight
\* entries and every pixel stay, and the palette changed flag is set.
C15_PaletteLoad ==
    [][(DecodedOk /\ IsPaletteLoad(pkt')) =>
          /\ \A i \in 0 .. 7 :
                LET v == ClaimPaletteValue(pkt', i)
                    e == palette'[ClaimPaletteBase(pkt') + i]
                IN /\ e[2] = ((v \div 256) % 16) * 17
                   /\ e[3] = ((v \div 16) % 16) * 17
                   /\ e[4] = (v % 16) * 17
          /\ allocated =>
                /\ \A k \in 0 .. 15 :
                      (k < ClaimPaletteBase(pkt') \/ k > ClaimPaletteBase(pkt') + 7)
                          => palette'[k] = palette[k]
                /\ \A i \in CanvasOffsets : pixels'[i] = pixels[i]
          /\ palette_has_changed' = 1]_vars

\* both halves of the palette have been loaded, the high half last: entry 0
\* is white (0xFFF) and entry 9 is red (0xF00)
C15_Witness ==
    /\ npackets = 2
    /\ IsPaletteLoad(pkt)
    /\ ClaimPaletteBase(pkt) = 8
    /\ palette[0] = <<0, 255, 255, 255>>
    /\ palette[9] = <<0, 255, 0, 0>>
    /\ palette_has_changed = 1

---------------------------------------------------------------------------
\* the packets the claim calls ignored
ClaimIgnored(cp) ==
    \/ cp.command % 64 # 9
    \/ cp.instruction % 64 \notin {1, 2, 6, 20, 24, 30, 31, 38}

\* C16: a packet whose command & 0x3F is not 0x09, or whose
\* instruction & 0x3F is none of the eight handled codes, changes neither a
\* pixel nor the palette nor the palette changed flag nor a scroll offset,
\* and the call returns no error.
C16_IgnoredPacketIsNoOp ==
    [][(Decoded /\ ClaimIgnored(pkt')) =>
          /\ ret' >= 0
          /\ allocated => (pixels' = pixels /\ palette' = palette)
          /\ palette_has_changed' = palette_has_changed
          /\ hscroll' = hscroll
          /\ vscroll' = vscroll]_vars

\* a packet with another command byte has been decoded after a palette
\* load: the palette and the flag of the load are still there
C16_Witness ==
    /\ npackets = 2
    /\ ClaimIgnored(pkt)
    /\ pkt.command % 64 # 9
    /\ ret = 0
    /\ palette_has_changed = 1
    /\ palette[0] = <<0, 255, 255, 255>>

---------------------------------------------------------------------------
\* the packet with bits 6-7 of the command byte, the instruction byte and
\* the 16 data bytes cleared
ClearUpperBits(cp) ==
    [size |-> cp.size, command |-> cp.command % 64,
     instruction |-> cp.instruction % 64,
     data |-> [i \in 0 .. 15 |-> cp.data[i] % 64]]

\* pixels, palette and offsets after packet cp has been decoded on the
\* buffer cur at offsets (hs, vs), a scroll getting a new buffer of bytes g
DecodeOutcome(cp, cur, g, hs, vs) ==
    IF IsScroll(cp)
    THEN LET new == cdg_scroll(cur, FreshBuffer(g), cp,
                               Instruction(cp) # CDG_INST_SCROLL_PRESET, hs, vs)
         IN [pix |-> new.pix, pal |-> new.pal,
             hs |-> ScrollHOff(cp), vs |-> ScrollVOff(cp)]
    ELSE LET new == Dispatch(cur, cp, hs, vs)
         IN [pix |-> new.pix, pal |-> new.pal, hs |-> hs, vs |-> vs]

\* C17: decoding depends on bits 0-5 of each byte only.  Whatever a packet
\* does to pixels, palette and scroll offsets, the packet with bits 6-7 of
\* its command, instruction and data bytes cleared does the same from the
\* same state with the same buffers from the host; so two packets that
\* differ in those bits only give the same result.
C17_UpperBitsIgnored ==
    [][DecodedOk =>
          \E fresh \in RegetChoices,
             g \in IF IsScroll(pkt') THEN FreshBytes ELSE {0} :
              [pix |-> pixels', pal |-> palette', hs |-> hscroll', vs |-> vscroll'] =
                  DecodeOutcome(ClearUpperBits(pkt'), Reget(fresh), g,
                                hscroll, vscroll)]_vars

\* a palette load with bits 6 and 7 set in data[8] and data[9] has been
\* decoded: entry 4 is what data[8] = 1, data[9] = 2 give
C17_Witness ==
    /\ IsPaletteLoad(pkt)
    /\ ret >= 0
    /\ pkt.data[8] >= 128
    /\ pkt.data[9] >= 64
    /\ pkt # ClearUpperBits(pkt)
    /\ palette[4] = <<0, 0, 68, 34>>

---------------------------------------------------------------------------
\* the shifts and offsets of a scroll packet as the claim states them
ClaimHDir(cp) ==
    LET c == (cp.data[1] % 64) \div 16
    IN IF c = 1 THEN 6 ELSE IF c = 2 THEN -6 ELSE 0
ClaimVDir(cp) ==
    LET c == (cp.data[2] % 64) \div 16
    IN IF c = 1 THEN 12 ELSE IF c = 2 THEN -12 ELSE 0
ClaimHOff(cp) == IF cp.data[1] % 8 > 5 THEN 5 ELSE cp.data[1] % 8
ClaimVOff(cp) == IF cp.data[2] % 16 > 11 THEN 11 ELSE cp.data[2] % 16

\* C18: a scroll packet shifts the canvas on each axis by its directional
\* shift plus (its clamped fine offset minus the stored offset) and stores
\* its fine offsets: every pixel whose source lies on the canvas is the
\* pixel that far up and left of it, the shift cdg_scroll computed is that
\* sum, and over all scroll packets so far the shifts add up to the
\* directional shifts plus the stored offset (which began at 0), so to the
\* stored offset alone when no packet had a directional command.
C18_ScrollShiftIsDirectionPlusOffsetDifference ==
    [][/\ (DecodedOk /\ IsScroll(pkt')) =>
            LET hinc == ClaimHDir(pkt') + (ClaimHOff(pkt') - hscroll)
                vinc == ClaimVDir(pkt') + (ClaimVOff(pkt') - vscroll)
            IN /\ hscroll' = ClaimHOff(pkt')
               /\ vscroll' = ClaimVOff(pkt')
               /\ shifts'.h - shifts.h = hinc
               /\ shifts'.v - shifts.v = vinc
               /\ (allocated /\ (hinc # 0 \/ vinc # 0)) =>
                     \A x \in 0 .. (CDG_FULL_WIDTH - 1), y \in 0 .. (CDG_FULL_HEIGHT - 1) :
                         (/\ x - hinc >= 0
                          /\ x - hinc < CDG_FULL_WIDTH
                          /\ y - vinc >= 0
                          /\ y - vinc < CDG_FULL_HEIGHT)
                             => pixels'[At(x, y)] = pixels[At(x - hinc, y - vinc)]
       /\ shifts'.h = shifts'.dh + hscroll'
       /\ shifts'.v = shifts'.dv + vscroll'
       /\ (shifts'.dh = shifts.dh /\ shifts'.dv = shifts.dv) =>
             /\ shifts'.h - shifts.h = hscroll' - hscroll
             /\ shifts'.v - shifts.v = vscroll' - vscroll]_vars

\* two scroll packets in a row: the first stored the offsets (1, 2) and
\* filled column 0 with color 2, the second moved on to (2, 3) with a shift
\* down, by 1 and 13 pixels, which took column 0 to column 1
C18_Witness ==
    /\ npackets = 2
    /\ IsScroll(pkt)
    /\ ret >= 0
    /\ hscroll = 2
    /\ vscroll = 3
    /\ shifts = [h |-> 2, v |-> 15, dh |-> 0, dv |-> 12]
    /\ pixels[At(1, 20)] = 2

---------------------------------------------------------------------------
\* C19: when a scroll shifts on both axes, every pixel of the |hinc| wide
\* column band the shift vacated, in every row of the canvas, holds the
\* horizontal fill: the color of the packet in preset mode, and in copy mode
\* the pixel of the same row in the band of that width at the opposite edge
\* of the old canvas.  The vertical band does not show in those columns.
C19_HorizontalBandFilledLast ==
    [][(DecodedOnCanvas /\ IsScroll(pkt')) =>
          LET hinc == ClaimHDir(pkt') + (ClaimHOff(pkt') - hscroll)
              vinc == ClaimVDir(pkt') + (ClaimVOff(pkt') - vscroll)
              copy == pkt'.instruction % 64 = 24
              left == IF hinc > 0 THEN 0 ELSE CDG_FULL_WIDTH + hinc
              from == IF hinc > 0 THEN CDG_FULL_WIDTH - hinc ELSE 0
              width == IF hinc > 0 THEN hinc ELSE -1 * hinc
          IN (hinc # 0 /\ vinc # 0) =>
                \A j \in 0 .. (width - 1), y \in 0 .. (CDG_FULL_HEIGHT - 1) :
                    pixels'[At(left + j, y)] =
                        IF copy THEN pixels[At(from + j, y)]
                        ELSE pkt'.data[0] % 16]_vars

\* a copy scroll by (1, 13) after a preset scroll had filled rows 0..1 and
\* column 0 with color 2: in column 0 the rows below row 1 hold what the
\* last column of the old canvas held, not the color 2 the vertical fill
\* took from column 0 of the old canvas
C19_Witness ==
    /\ npackets = 2
    /\ IsScroll(pkt)
    /\ pkt.instruction % 64 = 24
    /\ ret >= 0
    /\ shifts.h = 2
    /\ shifts.v = 15
    /\ pixels[At(0, 1)] = 2
    /\ pixels[At(0, 5)] \in FreshBytes
    /\ pixels[At(0, CDG_FULL_HEIGHT - 1)] \in FreshBytes

---------------------------------------------------------------------------
\* this step is a scroll whose get_buffer succeeded
Scrolled == Decoded /\ IsScroll(pkt') /\ ret' >= 0

\* the buffers the decoder holds: handed out and not handed back
Live == acquired - released

\* the counts of C20: a scroll that got its new buffer releases one buffer,
\* the old one; no other call releases any; closing releases the one held;
\* and once a canvas exists the decoder holds one buffer until it is closed
\* and none after
OwnershipCounts ==
    /\ Scrolled => (acquired' > acquired /\ released' = released + 1)
    /\ (Decoded /\ ~Scrolled) => released' = released
    /\ npackets' = npackets + 1 /\ pkt' = Unread => released' = released
    /\ Live' = IF allocated' /\ ~closed' THEN 1 ELSE 0

\* the new buffer of a scroll has all its pixels written when the old
\* buffer is released
ScrollFillsNewBuffer ==
    Scrolled => CanvasOffsets \subseteq ScrollWritten(pkt', hscroll, vscroll)

\* C20: on a scroll packet the new buffer is acquired and completely filled
\* before the old one is released; the old buffer is released once and only
\* after the new one was acquired; between calls the decoder holds exactly
\* one buffer, none is leaked or released twice, also when get_buffer fails
\* and when the decoder is closed.
C20_BufferOwnership == [][OwnershipCounts /\ ScrollFillsNewBuffer]_vars

====
